---- MODULE Spec2Model ----
(***************************************************************************)
(* State-machine model of wrapspawner/wrapspawner.py: the WrapSpawner      *)
(* delegation core, the ProfilesSpawner static profile selector and the    *)
(* DropDownOptionsSpawner structured form selector.                        *)
(*                                                                         *)
(* Python dicts are sets of <<key, value>> pairs.  Dict OBJECTS live in    *)
(* `heap`, and a field holding a dict holds the name of its cell, so that  *)
(* two references to one dict (self.child_config = p[3]) see each other's  *)
(* in-place changes (dict.update, item assignment).                        *)
(***************************************************************************)
EXTENDS Integers, Sequences, FiniteSets, TLC

VARIABLES
    cls,            \* the wrapper's class (fixed at construction)
    profiles,       \* ProfilesSpawner.profiles: <<display, key, type, cell>>
    user_options,   \* Spawner.user_options, set by the host before a spawn
    child_class,    \* WrapSpawner.child_class
    child_config,   \* WrapSpawner.child_config: the cell of the dict
    heap,           \* cell -> dict contents
    child_state,    \* WrapSpawner.child_state (cache)
    child_spawner,  \* WrapSpawner.child_spawner: None or the child object
    child_profile,  \* ProfilesSpawner.child_profile
    saved,          \* the mapping returned by the latest get_state()
    last,           \* the call that has just returned (Idle between calls)
    log,            \* what that call did, in order
    ret,            \* what that call returned
    rt,             \* history: progress through get_state(); clear_state()
    sel,            \* history: the key of a select_profile that was the previous call
    partitions,     \* DropDownOptionsSpawner.partitions
    default_profiles, \* DockerProfilesSpawner.default_profiles
    env,            \* what is outside: the docker daemon and the accelerator service
    call,           \* the latest form or configuration call, and its outcome
    traits          \* the wrapper's own values of the traits every Spawner has

vars == <<cls, profiles, user_options, child_class, child_config, heap,
          child_state, child_spawner, child_profile, saved, last,
          log, ret, rt, sel, partitions, default_profiles, env, call, traits>>

\* the fields and surroundings that only forms and configuration read
formvars == <<partitions, default_profiles, env, call>>

-----------------------------------------------------------------------------
\* Bounds of the model

\* number of child objects that can be told apart
MaxChildren == 2

\* length of the longest profile list proposed as configuration
MaxProposalLen == 3

-----------------------------------------------------------------------------
\* Python values

None == [none |-> TRUE]
PyNone == <<>>
Py(v) == <<v>>
RetNone == [kind |-> "None"]
RetRaised == [kind |-> "raised"]
RetChild(id) == [kind |-> "Spawner", id |-> id]
RetDict == [kind |-> "dict"]

EmptyDict == {}
Keys(d) == {p[1] : p \in d}
Get(d, k, dflt) == IF k \in Keys(d) THEN (CHOOSE p \in d : p[1] = k)[2] ELSE dflt
Update(d, e) == {p \in d : p[1] \notin Keys(e)} \cup e
SetItem(d, k, v) == Update(d, {<<k, v>>})

Min(S) == CHOOSE x \in S : \A y \in S : x <= y

\* _yield_val: a Future that already holds its result
yield_val(x) == [kind |-> "Future", done |-> TRUE, result |-> x, from |-> "yield_val"]

\* the Future a child's start/stop/poll hands back, passed on untouched
ChildFuture(method, id) == [kind |-> "Future", done |-> FALSE, result |-> PyNone, from |-> method, child |-> id]

-----------------------------------------------------------------------------
\* Classes, traits and the values the inputs are drawn from

WrapperClasses == {"WrapSpawner", "ProfilesSpawner", "DropDownOptionsSpawner"}
DefaultChildClass == "LocalProcessSpawner"
ProfileTypes == {"LocalProcessSpawner", "TorqueSpawner"}
BackendTypes == ProfileTypes \cup {"SlurmSpawner"}

\* traits every Spawner has (the ones the profiles configure)
SpawnerTraits == {"start_timeout", "http_timeout"}
WrapperTraits == SpawnerTraits \cup {"child_class", "child_config", "child_state", "child_spawner"}
BatchTraits == {"req_queue", "req_memory", "req_nprocs", "req_runtime", "req_options"}
ChildTraits(type) == SpawnerTraits \cup (IF type = "LocalProcessSpawner" THEN {} ELSE BatchTraits)

\* dict objects: the wrapper's own child_config dict, and one per profile
OwnCell == "D"
ProfileCell(i) == IF i = 1 THEN "P1" ELSE "P2"
ConfCells == {OwnCell, "P1", "P2"}

ProfileKeys == {"a", "b"}
\* the config each profile type comes with (the default profile's for the default type)
ProfileConf(type) ==
    IF type = DefaultChildClass
    THEN {<<"start_timeout", "15">>, <<"http_timeout", "10">>}
    ELSE EmptyDict
InitConfs == {EmptyDict, {<<"start_timeout", "15">>}}
\* a child's own persisted state; JunkState is what a new object may hold
RunningState == {<<"pid", 1>>}
JunkState == {<<"pid", 2>>}
ChildStates == {EmptyDict, RunningState}

FormFields == {"partition", "memory", "cpus", "days", "hours", "minutes", "options"}

\* two filled-in forms of the DropDownOptionsSpawner
ExampleOptions ==
    {<<"partition", "standard">>, <<"memory", "8">>, <<"cpus", "4">>,
     <<"days", "1">>, <<"hours", "2">>, <<"minutes", "30">>, <<"options", "--flag">>}
OtherOptions ==
    {<<"partition", "gpu">>, <<"memory", "16">>, <<"cpus", "1">>,
     <<"days", "0">>, <<"hours", "8">>, <<"minutes", "5">>, <<"options", "">>}

\* what the host puts in user_options: nothing, or what options_from_form gave
UserOptionChoices ==
    CASE cls = "ProfilesSpawner" ->
            {EmptyDict, {<<"profile", "a">>}, {<<"profile", "b">>}}
      [] cls = "DropDownOptionsSpawner" -> {EmptyDict, ExampleOptions, OtherOptions}
      [] OTHER -> {EmptyDict, {<<"profile", "a">>}}

\* persisted mappings handed to load_state: which keys are there, and their values
PersistedConfs ==
    IF cls = "ProfilesSpawner" THEN {EmptyDict} ELSE {{<<"start_timeout", "30">>}}
StateKeys == {"child_conf", "child_state", "profile"}
MkState(ks, conf, cstate, prof) ==
    [keys |-> ks,
     child_conf |-> IF "child_conf" \in ks THEN conf ELSE EmptyDict,
     child_state |-> IF "child_state" \in ks THEN cstate ELSE EmptyDict,
     profile |-> IF "profile" \in ks THEN prof ELSE ""]
StateInputs ==
    { MkState(ks, conf, cstate, prof) :
        ks \in {{}, {"profile"}, {"child_conf", "child_state"},
                {"child_conf", "child_state", "profile"}},
        conf \in PersistedConfs,
        cstate \in {RunningState},
        prof \in ProfileKeys }

\* what the backend does when called: which of its methods raises (if any),
\* and the state a new object starts with
Behaviours(fails) ==
    [fail : fails \cup {"none"}, junk : {JunkState}]

-----------------------------------------------------------------------------
\* The wrapper's fields as one record, which the methods transform.  `raised`
\* is set when a call into the backend raised: the rest of the method is
\* skipped and what it had already assigned stays.

Self ==
    [child_class |-> child_class, child_config |-> child_config, heap |-> heap,
     child_state |-> child_state, child_spawner |-> child_spawner,
     child_profile |-> child_profile, saved |-> saved, traits |-> traits,
     log |-> <<>>, raised |-> FALSE, ret |-> RetNone]

Logged(w, what) == [w EXCEPT !.log = Append(@, what)]
Raise(w) == [w EXCEPT !.raised = TRUE, !.ret = RetRaised]
Then(w, v) == IF w.raised THEN w ELSE v

\* ---- the child (any Spawner backend whose state round-trips) ----

\* child_class(user=..., config=..., **child_config): the new object sees the
\* wrapper's persisted state, so its own state starts as anything
\* a new object is never the object the wrapper holds at that moment
NewId(w) == IF w.child_spawner = None THEN 0 ELSE (w.child_spawner.id + 1) % MaxChildren

\* the values traits have: on the wrapper and on a backend when nothing
\* sets them, and what they may be set to later
CoreDefault == "60"
ClassDefault == "30"
TraitValues == {"60", "90"}

NewChild(w, b) ==
    [none |-> FALSE, id |-> NewId(w), type |-> w.child_class,
     kwargs |-> w.heap[w.child_config], state |-> b.junk, links |-> {},
     linked |-> FALSE,
     traits |-> [t \in SpawnerTraits |-> Get(w.heap[w.child_config], t, ClassDefault)]]

ChildClearState(c) == [c EXCEPT !.state = EmptyDict]
ChildLoadState(c, state) == [c EXCEPT !.state = state]
ChildGetState(c) == c.state
ChildStart(c) == [c EXCEPT !.state = RunningState]

\* faulty variant: the traits that child_config sets are linked as well
CommonTraits_All(w) ==
    WrapperTraits \cap ChildTraits(w.child_spawner.type)

\* set(self.trait_names()) & set(child.trait_names()) - set(child_config.keys())
CommonTraits(w) ==
    WrapperTraits \cap (ChildTraits(w.child_spawner.type) \ Keys(w.heap[w.child_config]))

\* directional_link((self, trait), (child, trait)) copies the value at once
\* and again on every later change of the wrapper's trait
LinkTraits(w) ==
    [Logged(w, "directional_link") EXCEPT
        !.child_spawner.links = CommonTraits(w),
        !.child_spawner.linked = TRUE,
        !.child_spawner.traits = [t \in SpawnerTraits |->
                                     IF t \in CommonTraits(w) THEN w.traits[t] ELSE @[t]]]

\* self.<trait> = v: the links of the child carry the value over
CoreWrite(w, t, v) ==
    IF w.child_spawner # None /\ t \in w.child_spawner.links
    THEN [w EXCEPT !.traits[t] = v, !.child_spawner.traits[t] = v]
    ELSE [w EXCEPT !.traits[t] = v]

\* child.<trait> = v: nothing observes the child
ChildWrite(w, t, v) == [w EXCEPT !.child_spawner.traits[t] = v]

\* ---- WrapSpawner ----

ConstructInit(w, b) ==
    IF b.fail = "init" THEN Raise(Logged(w, "child.__init__"))
    ELSE [Logged(w, "child.__init__") EXCEPT !.child_spawner = NewChild(w, b)]

ConstructClear(w, b) ==
    IF b.fail = "clear_state" THEN Raise(Logged(w, "child.clear_state"))
    ELSE [Logged(w, "child.clear_state") EXCEPT !.child_spawner = ChildClearState(@)]

\* faulty variant: the cached state is loaded even when it is empty
ConstructLoad_Always(w, b) ==
    IF b.fail = "load_state" THEN Raise(Logged(w, "child.load_state"))
    ELSE [Logged(w, "child.load_state") EXCEPT
              !.child_spawner = ChildLoadState(@, w.child_state)]

ConstructLoad(w, b) ==
    IF w.child_state = EmptyDict THEN w
    ELSE IF b.fail = "load_state" THEN Raise(Logged(w, "child.load_state"))
    ELSE [Logged(w, "child.load_state") EXCEPT
              !.child_spawner = ChildLoadState(@, w.child_state)]

\* faulty variant: a child is built on every call, replacing the one there is
WrapSpawner_construct_child_Always(w, b) ==
    LET w1 == ConstructInit(w, b)
        w2 == Then(w1, ConstructClear(w1, b))
        w3 == Then(w2, ConstructLoad(w2, b))
        w4 == Then(w3, LinkTraits(w3))
    IN Then(w4, [w4 EXCEPT !.ret = RetChild(w4.child_spawner.id)])

WrapSpawner_construct_child(w, b) ==
    IF w.child_spawner # None
    THEN [w EXCEPT !.ret = RetChild(w.child_spawner.id)]
    ELSE LET w1 == ConstructInit(w, b)
             w2 == Then(w1, ConstructClear(w1, b))
             w3 == Then(w2, ConstructLoad(w2, b))
             w4 == Then(w3, LinkTraits(w3))
         IN Then(w4, [w4 EXCEPT !.ret = RetChild(w4.child_spawner.id)])

\* ---- ProfilesSpawner ----

\* faulty variant: the scan stops at the first profile, whatever its key
select_profile_First(w, profile) ==
    LET matches == {i \in DOMAIN profiles : profiles[i][2] = profile}
    IN IF matches = {} THEN w
       ELSE [w EXCEPT !.child_class = profiles[1][3],
                      !.child_config = profiles[1][4]]

\* faulty variant: an unknown key falls back to the default class and an empty config
select_profile_Resets(w, profile) ==
    LET matches == {i \in DOMAIN profiles : profiles[i][2] = profile}
    IN IF matches = {}
       THEN [w EXCEPT !.child_class = DefaultChildClass, !.child_config = OwnCell]
       ELSE [w EXCEPT !.child_class = profiles[Min(matches)][3],
                      !.child_config = profiles[Min(matches)][4]]

select_profile(w, profile) ==
    LET matches == {i \in DOMAIN profiles : profiles[i][2] = profile}
    IN IF matches = {} THEN w
       ELSE [w EXCEPT !.child_class = profiles[Min(matches)][3],
                      !.child_config = profiles[Min(matches)][4]]

ProfilesSpawner_construct_child(w, b) ==
    LET w1 == [w EXCEPT !.child_profile = Get(user_options, "profile", "")]
        w2 == select_profile(w1, w1.child_profile)
        w3 == WrapSpawner_construct_child(w2, b)
    IN Then(w3, [w3 EXCEPT !.ret = RetNone])

ProfilesSpawner_load_child_class(w, state) ==
    LET w1 == [w EXCEPT !.child_profile =
                   IF "profile" \in state.keys THEN state.profile ELSE ""]
    IN select_profile(w1, w1.child_profile)

\* ---- DropDownOptionsSpawner ----

\* faulty variant: the runtime is composed without its seconds
DropDownConfig_NoSeconds(d, uo) ==
    LET d1 == SetItem(d, "req_queue", Get(uo, "partition", ""))
        d2 == SetItem(d1, "req_memory", Get(uo, "memory", "") \o "GB")
        d3 == SetItem(d2, "req_nprocs", Get(uo, "cpus", ""))
        d4 == SetItem(d3, "req_runtime",
                      Get(uo, "days", "") \o "-" \o Get(uo, "hours", "") \o ":"
                          \o Get(uo, "minutes", ""))
    IN SetItem(d4, "req_options", Get(uo, "options", ""))

DropDownConfig(d, uo) ==
    LET d1 == SetItem(d, "req_queue", Get(uo, "partition", ""))
        d2 == SetItem(d1, "req_memory", Get(uo, "memory", "") \o "GB")
        d3 == SetItem(d2, "req_nprocs", Get(uo, "cpus", ""))
        d4 == SetItem(d3, "req_runtime",
                      Get(uo, "days", "") \o "-" \o Get(uo, "hours", "") \o ":"
                          \o Get(uo, "minutes", "") \o ":00")
    IN SetItem(d4, "req_options", Get(uo, "options", ""))

DropDownOptionsSpawner_construct_child(w, b) ==
    LET w1 == [w EXCEPT !.child_class = "SlurmSpawner",
                        !.heap[w.child_config] = DropDownConfig(@, user_options)]
        w2 == WrapSpawner_construct_child(w1, b)
    IN Then(w2, [w2 EXCEPT !.ret = RetNone])

\* ---- method dispatch on the wrapper's class ----

construct_child(w, b) ==
    CASE cls = "ProfilesSpawner" -> ProfilesSpawner_construct_child(w, b)
      [] cls = "DropDownOptionsSpawner" -> DropDownOptionsSpawner_construct_child(w, b)
      [] OTHER -> WrapSpawner_construct_child(w, b)

load_child_class(w, state) ==
    IF cls = "ProfilesSpawner" THEN ProfilesSpawner_load_child_class(w, state) ELSE w

\* ---- WrapSpawner: state, and the proxies for start/stop/poll ----

\* Spawner.get_state of the host's base class: a new, empty mapping
BaseState == [keys |-> {}, child_conf |-> EmptyDict, child_state |-> EmptyDict, profile |-> ""]

\* state.get('child_conf', {}) and state.get('child_state', {})
PersistedChildConf(state) == IF "child_conf" \in state.keys THEN state.child_conf ELSE EmptyDict
PersistedChildState(state) == IF "child_state" \in state.keys THEN state.child_state ELSE EmptyDict

\* self.child_config.update(...): the dict child_config is bound to changes in place
MergeChildConf(w, state) ==
    [Logged(w, "child_config.update") EXCEPT
        !.heap[w.child_config] = Update(@, PersistedChildConf(state))]

\* faulty variant: load_state forgets to cache the persisted child state
CacheChildState_Forgets(w, state) == Logged(w, "child_state=")

CacheChildState(w, state) ==
    [Logged(w, "child_state=") EXCEPT !.child_state = PersistedChildState(state)]

\* faulty variant: load_state constructs the child before it caches child_state
WrapSpawner_load_state_ConstructFirst(w, state, b) ==
    LET w1 == Logged(w, "Spawner.load_state")
        w2 == load_child_class(Logged(w1, "load_child_class"), state)
        w3 == MergeChildConf(w2, state)
        w4 == construct_child(Logged(w3, "construct_child"), b)
        w5 == Then(w4, CacheChildState(w4, state))
    IN Then(w5, [w5 EXCEPT !.ret = RetNone])

WrapSpawner_load_state(w, state, b) ==
    LET w1 == Logged(w, "Spawner.load_state")
        w2 == load_child_class(Logged(w1, "load_child_class"), state)
        w3 == MergeChildConf(w2, state)
        w4 == CacheChildState(w3, state)
        w5 == construct_child(Logged(w4, "construct_child"), b)
    IN Then(w5, [w5 EXCEPT !.ret = RetNone])

\* faulty variant: get_state returns the cached child_state, never asking the child
WrapSpawner_get_state_Cached(w) ==
    [w EXCEPT !.saved = [BaseState EXCEPT !.keys = {"child_conf", "child_state"},
                                          !.child_conf = w.heap[w.child_config],
                                          !.child_state = w.child_state],
              !.ret = RetDict]

\* the host serialises the mapping at once, so `saved` holds child_config's
\* contents as they are now
WrapSpawner_get_state(w) ==
    LET state == [BaseState EXCEPT !.keys = @ \cup {"child_conf"},
                                   !.child_conf = w.heap[w.child_config]]
    IN IF w.child_spawner # None
       THEN [Logged(w, "child.get_state") EXCEPT
                !.child_state = ChildGetState(w.child_spawner),
                !.saved = [state EXCEPT !.keys = @ \cup {"child_state"},
                                        !.child_state = ChildGetState(w.child_spawner)],
                !.ret = RetDict]
       ELSE [w EXCEPT !.saved = state, !.ret = RetDict]

ProfilesSpawner_get_state(w) ==
    LET w1 == WrapSpawner_get_state(w)
    IN [w1 EXCEPT !.saved.keys = @ \cup {"profile"}, !.saved.profile = w.child_profile]

get_state(w) ==
    IF cls = "ProfilesSpawner" THEN ProfilesSpawner_get_state(w) ELSE WrapSpawner_get_state(w)

\* self.child_config = {} binds a NEW dict, which no profile refers to
FreshCell(w) == OwnCell

ClearChild(w, b) ==
    IF w.child_spawner = None THEN w
    ELSE IF b.fail = "clear_state" THEN Raise(Logged(w, "child.clear_state"))
    ELSE [Logged(w, "child.clear_state") EXCEPT !.child_spawner = ChildClearState(@)]

\* faulty variant: clear_state also puts child_class back to the default
ResetSelection_DropsClass(w) ==
    [w EXCEPT !.child_state = EmptyDict,
              !.child_config = FreshCell(w),
              !.heap[FreshCell(w)] = EmptyDict,
              !.child_spawner = None,
              !.child_class = DefaultChildClass]

ResetSelection(w) ==
    [w EXCEPT !.child_state = EmptyDict,
              !.child_config = FreshCell(w),
              !.heap[FreshCell(w)] = EmptyDict,
              !.child_spawner = None]

WrapSpawner_clear_state(w, b) ==
    LET w1 == ClearChild(Logged(w, "Spawner.clear_state"), b)
    IN Then(w1, ResetSelection(w1))

ProfilesSpawner_clear_state(w, b) ==
    LET w1 == WrapSpawner_clear_state(w, b)
    IN Then(w1, [w1 EXCEPT !.child_profile = ""])

clear_state(w, b) ==
    IF cls = "ProfilesSpawner" THEN ProfilesSpawner_clear_state(w, b)
    ELSE WrapSpawner_clear_state(w, b)

\* faulty variant: a start that raised makes the wrapper let go of the child
StartChild_DropsChild(w, b) ==
    IF b.fail = "start" THEN [Raise(Logged(w, "child.start")) EXCEPT !.child_spawner = None]
    ELSE [Logged(w, "child.start") EXCEPT
              !.child_spawner = ChildStart(@),
              !.ret = ChildFuture("start", w.child_spawner.id)]

StartChild(w, b) ==
    IF b.fail = "start" THEN Raise(Logged(w, "child.start"))
    ELSE [Logged(w, "child.start") EXCEPT
              !.child_spawner = ChildStart(@),
              !.ret = ChildFuture("start", w.child_spawner.id)]

start(w, b) ==
    LET w1 == IF w.child_spawner = None THEN construct_child(w, b) ELSE w
    IN Then(w1, StartChild(w1, b))

stop(w, now) ==
    IF w.child_spawner # None
    THEN [Logged(w, "child.stop") EXCEPT !.ret = ChildFuture("stop", w.child_spawner.id)]
    ELSE [w EXCEPT !.ret = yield_val(PyNone)]

\* faulty variant: poll answers None ("running") when there is no child
poll_NoSentinel(w) ==
    IF w.child_spawner # None
    THEN [Logged(w, "child.poll") EXCEPT !.ret = ChildFuture("poll", w.child_spawner.id)]
    ELSE [w EXCEPT !.ret = yield_val(PyNone)]

poll(w) ==
    IF w.child_spawner # None
    THEN [Logged(w, "child.poll") EXCEPT !.ret = ChildFuture("poll", w.child_spawner.id)]
    ELSE [w EXCEPT !.ret = yield_val(Py(1))]

-----------------------------------------------------------------------------
\* Forms and configuration

\* Python values that get subscripted: a list of strings, an int, a string
PyList(items) == [t |-> "list", items |-> items]
PyInt(n) == [t |-> "int", n |-> n]
PyStr(s) == [t |-> "str", s |-> s]

\* the names partitions are given, and their characters
PartitionNames == {"standard", "gpu", "x"}
Chars(s) ==
    CASE s = "standard" -> <<"s", "t", "a", "n", "d", "a", "r", "d">>
      [] s = "gpu" -> <<"g", "p", "u">>
      [] s = "x" -> <<"x">>
      [] OTHER -> <<>>

\* the outcome of evaluating an expression: a value, or the exception raised
Value(v) == [raised |-> "", value |-> v]
Raises(e) == [raised |-> e, value |-> ""]
\* the same for a call that would have returned a dict
RaisesFromCall(e) == [raised |-> e, value |-> EmptyDict]

\* x[i], i counted from 0
Subscript(x, i) ==
    CASE x.t = "int" -> Raises("TypeError")
      [] x.t = "list" -> IF i < Len(x.items) THEN Value(x.items[i + 1]) ELSE Raises("IndexError")
      [] x.t = "str" -> IF i < Len(Chars(x.s)) THEN Value(Chars(x.s)[i + 1]) ELSE Raises("IndexError")

\* what the browser submits: field name -> list of strings, never an empty list
FormLists == {PyList(<<"a">>), PyList(<<"b", "a">>), PyList(<<"zz">>)}
NoCall == [op |-> "none", arg |-> EmptyDict, ret |-> Value(EmptyDict)]

DefaultPartitions == <<"standard">>
NoEnv == [docker |-> "missing", tags |-> <<>>, nvidia |-> "down"]

\* ---- DockerProfilesSpawner: the profile list is computed on every access ----

\* image tags the daemon may report; jupyterhub_docker_tag_re is ^.*jupyterhub$
ImageTags == {"base-jupyterhub", "gpu-jupyterhub", "postgres"}
MatchesTagRe(tag) == tag \in {"base-jupyterhub", "gpu-jupyterhub"}

\* what the accelerator service answers when it is there
NvidiaArgs ==
    {<<"read_only_volumes", "volumes">>, <<"extra_create_kwargs", "volume_driver">>,
     <<"extra_host_config", "devices">>}

\* urlopen raises URLError when nothing answers, and that alone is caught
nvidia_args ==
    CASE env.nvidia = "down" -> Value(EmptyDict)
      [] env.nvidia = "garbled" -> Raises("ValueError")
      [] OTHER -> Value(NvidiaArgs)

\* a profile made for one image; its dict is a new one each time, so it is
\* kept in the tuple itself and not in a cell
docker_profile(args, image) ==
    << "Docker: (" \o (IF Cardinality(args) > 0 THEN "w/GPU" ELSE "no GPU") \o "): " \o image,
       "docker-" \o image,
       "dockerspawner.SystemUserSpawner",
       Update({<<"container_image", image>>, <<"network_name", "user">>}, args) >>

\* the tags of all images, filtered; only NameError (no docker package) is
\* caught, and raised again as an Exception
jupyterhub_docker_tags ==
    CASE env.docker = "missing" -> Raises("Exception")
      [] env.docker = "down" -> Raises("DockerException")
      [] OTHER -> Value(SelectSeq(env.tags, MatchesTagRe))

\* [self._docker_profile(self._nvidia_args(), tag) for tag in self._jupyterhub_docker_tags()]
docker_profiles ==
    LET tags == jupyterhub_docker_tags
    IN IF tags.raised # "" THEN tags
       ELSE IF tags.value = <<>> THEN Value(<<>>)
       ELSE IF nvidia_args.raised # "" THEN nvidia_args
       ELSE Value([i \in DOMAIN tags.value |-> docker_profile(nvidia_args.value, tags.value[i])])

\* self.default_profiles + self._docker_profiles()
DockerProfilesSpawner_profiles ==
    LET found == docker_profiles
    IN IF found.raised # "" THEN found ELSE Value(default_profiles \o found.value)

\* self.profiles: the configured trait, or the property that hides it
SelfProfiles ==
    IF cls = "DockerProfilesSpawner" THEN DockerProfilesSpawner_profiles ELSE Value(profiles)

\* temp_keys = [dict(..., key=p[1], first='') ...]; temp_keys[0]['first'] = first_template
options_form ==
    LET ps == SelfProfiles
    IN IF ps.raised # "" THEN ps
       ELSE IF Len(ps.value) = 0 THEN Raises("IndexError")
       ELSE Value([i \in DOMAIN ps.value |->
                      <<ps.value[i][2], IF i = 1 THEN "selected" ELSE "">>])

\* faulty variant: the last submitted value is taken, not the first
ProfilesSpawner_options_from_form_Last(formdata) ==
    LET l == Get(formdata, "profile", PyList(<<profiles[1][2]>>))
    IN Value({<<"profile", l.items[Len(l.items)]>>})

\* dict(profile=formdata.get('profile', [self.profiles[0][1]])[0])
ProfilesSpawner_options_from_form(formdata) ==
    LET ps == SelfProfiles
    IN IF ps.raised # "" THEN RaisesFromCall(ps.raised)
       ELSE IF Len(ps.value) = 0 THEN RaisesFromCall("IndexError")
       ELSE LET first == Subscript(Get(formdata, "profile", PyList(<<ps.value[1][2]>>)), 0)
            IN IF first.raised # "" THEN RaisesFromCall(first.raised)
               ELSE Value({<<"profile", first.value>>})

\* seen = set(); duplicated = {p[1] for p in profiles if p[1] in seen or seen.add(p[1])}
RECURSIVE Duplicated(_, _, _)
Duplicated(ps, seen, dup) ==
    IF ps = <<>> THEN dup
    ELSE IF Head(ps)[2] \in seen
         THEN Duplicated(Tail(ps), seen, dup \cup {Head(ps)[2]})
         ELSE Duplicated(Tail(ps), seen \cup {Head(ps)[2]}, dup)

Accepted(proposal) == [raised |-> "", by |-> "", duplicated |-> {}, value |-> proposal]
Rejected(by, dup) == [raised |-> "TraitError", by |-> by, duplicated |-> dup, value |-> <<>>]

\* faulty variant: only neighbours in the list are compared
validate_profiles_Adjacent(proposal) ==
    LET dup == {proposal[i][2] : i \in {j \in DOMAIN proposal : j > 1 /\ proposal[j][2] = proposal[j - 1][2]}}
    IN IF dup # {} THEN Rejected("_validate_profiles", dup) ELSE Accepted(proposal)

validate_profiles(proposal) ==
    LET duplicated == Duplicated(proposal, {}, {})
    IN IF Cardinality(duplicated) # 0 THEN Rejected("_validate_profiles", duplicated)
       ELSE Accepted(proposal)

\* assigning the profiles trait: List(..., minlen = 1) checks the value
\* first, and hands what it accepts to the @validate("profiles") method
SetProfilesTrait(proposal) ==
    IF Len(proposal) < 1 THEN Rejected("List", {}) ELSE validate_profiles(proposal)

\* DropDownOptionsSpawner's configured defaults
default_days == 0
default_hours == 8
default_minutes == 0
default_mem == 2
default_cpus == 1

FieldOrder == <<"partition", "memory", "cpus", "days", "hours", "minutes", "options">>

\* the second argument of each formdata.get(...): Python evaluates it before
\* the call, whether the field is there or not
FieldDefault(k) ==
    CASE k = "partition" ->
            LET c == Subscript(PyStr(partitions[1]), 1)
            IN IF c.raised # "" THEN c ELSE Value(PyList(<<c.value>>))
      [] k = "memory" -> Value(PyInt(default_mem))
      [] k = "cpus" -> Value(PyInt(default_cpus))
      [] k = "days" -> Value(PyInt(default_days))
      [] k = "hours" -> Value(PyInt(default_hours))
      [] k = "minutes" -> Value(PyInt(default_minutes))
      [] k = "options" -> Value(PyStr(""))

\* formdata.get(k, default)[0]
FieldValue(formdata, k) ==
    LET dflt == FieldDefault(k)
    IN IF dflt.raised # "" THEN dflt
       ELSE Subscript(Get(formdata, k, dflt.value), 0)

\* dict(partition=..., memory=..., ...): the keyword arguments are evaluated
\* in order, and the first that raises ends the call
DropDownOptionsSpawner_options_from_form(formdata) ==
    LET field == [i \in DOMAIN FieldOrder |-> FieldValue(formdata, FieldOrder[i])]
        bad == {i \in DOMAIN FieldOrder : field[i].raised # ""}
    IN IF bad # {} THEN RaisesFromCall(field[Min(bad)].raised)
       ELSE Value({<<FieldOrder[i], field[i].value>> : i \in DOMAIN FieldOrder})

options_from_form(formdata) ==
    IF cls = "DropDownOptionsSpawner" THEN DropDownOptionsSpawner_options_from_form(formdata)
    ELSE ProfilesSpawner_options_from_form(formdata)

-----------------------------------------------------------------------------
\* The state machine: one action per call the host makes on the wrapper

\* the candidate profile lists: unique keys, 1..MaxProfiles entries; entry i
\* keeps its config dict in cell ProfileCell(i)
ProfileEntries == {<<k, t, ProfileConf(t)>> : k \in ProfileKeys, t \in ProfileTypes}
ProfileChoices ==
    { ps \in UNION {[1..n -> ProfileEntries] : n \in 1..Cardinality(ProfileKeys)} :
        \A i, j \in DOMAIN ps : i # j => ps[i][1] # ps[j][1] }

DefaultProfiles ==
    {<< <<"local", "LocalProcessSpawner", {<<"start_timeout", "15">>, <<"http_timeout", "10">>}>> >>}

Idle == [op |-> "idle", arg |-> PyNone, ok |-> TRUE, hadChild |-> FALSE]

Init ==
    /\ cls \in WrapperClasses
    /\ \E ps \in (IF cls = "ProfilesSpawner" THEN ProfileChoices ELSE DefaultProfiles),
          c0 \in (IF cls = "WrapSpawner" THEN InitConfs ELSE {EmptyDict}) :
          /\ profiles = [i \in DOMAIN ps |->
                            <<"Profile " \o ps[i][1], ps[i][1], ps[i][2], ProfileCell(i)>>]
          /\ heap = [c \in ConfCells |->
                        IF \E i \in DOMAIN ps : ProfileCell(i) = c
                        THEN ps[CHOOSE i \in DOMAIN ps : ProfileCell(i) = c][3]
                        ELSE IF c = OwnCell THEN c0 ELSE EmptyDict]
    /\ user_options = EmptyDict
    /\ child_class \in (IF cls = "WrapSpawner" THEN BackendTypes ELSE {DefaultChildClass})
    /\ child_config = OwnCell
    /\ child_state = EmptyDict
    /\ child_spawner = None
    /\ child_profile = ""
    /\ saved = BaseState
    /\ last = Idle
    /\ log = <<>>
    /\ ret = RetNone
    /\ rt = 0
    /\ sel = {}
    /\ partitions = DefaultPartitions
    /\ default_profiles = <<>>
    /\ env = NoEnv
    /\ call = NoCall
    /\ traits = [t \in SpawnerTraits |-> CoreDefault]

\* get_state with a live child, then clear_state, both returning normally
RoundTrip(op, w) ==
    IF w.raised THEN 0
    ELSE IF op = "get_state" THEN 1
    ELSE IF op = "clear_state" /\ rt = 1 THEN 2
    ELSE 0

\* The host makes one call at a time.  A call's outcome stays visible in
\* last, log and ret until Return, when the host takes up its next call.
Commit(op, arg, w) ==
    /\ last = Idle
    /\ child_class' = w.child_class
    /\ child_config' = w.child_config
    /\ heap' = w.heap
    /\ child_state' = w.child_state
    /\ child_spawner' = w.child_spawner
    /\ child_profile' = w.child_profile
    /\ saved' = IF RoundTrip(op, w) = 0 THEN BaseState ELSE w.saved
    /\ last' = [op |-> op, arg |-> arg, ok |-> ~w.raised, hadChild |-> child_spawner # None]
    /\ log' = w.log
    /\ ret' = w.ret
    /\ rt' = RoundTrip(op, w)
    /\ sel' = IF op = "select_profile" /\ child_spawner = None THEN {arg} ELSE {}
    /\ traits' = w.traits
    /\ UNCHANGED <<cls, profiles, user_options>>
    /\ UNCHANGED formvars

Return ==
    /\ last # Idle
    /\ last' = Idle
    /\ log' = <<>>
    /\ ret' = RetNone
    /\ UNCHANGED <<cls, profiles, user_options, child_class, child_config, heap,
                   child_state, child_spawner, child_profile, saved, rt, sel, traits>>
    /\ UNCHANGED formvars

\* the host assigns user_options (between calls, before a spawn)
SetUserOptions ==
    /\ last = Idle
    /\ \E uo \in UserOptionChoices :
          /\ uo # user_options
          /\ user_options' = uo
    /\ UNCHANGED <<cls, profiles, child_class, child_config, heap, child_state,
                   child_spawner, child_profile, saved, last, log, ret, rt, sel, traits>>
    /\ UNCHANGED formvars

Select ==
    /\ cls = "ProfilesSpawner"
    /\ \E k \in ProfileKeys \cup {"zz", ""} :
          Commit("select_profile", k, select_profile(Self, k))

Construct ==
    \E b \in Behaviours({"init", "clear_state", "load_state"}) :
        Commit("construct_child", [sel |-> sel], construct_child(Self, b))

Start ==
    \E b \in Behaviours({"init", "clear_state", "load_state", "start"}) :
        Commit("start", PyNone, start(Self, b))

Stop ==
    \E now \in BOOLEAN : Commit("stop", now, stop(Self, now))

Poll ==
    Commit("poll", PyNone, poll(Self))

GetState ==
    Commit("get_state", PyNone, get_state(Self))

ClearState ==
    \E b \in Behaviours({"clear_state"}) :
        Commit("clear_state", PyNone, clear_state(Self, b))

LoadState ==
    \E state \in StateInputs, b \in Behaviours({"init", "clear_state", "load_state"}) :
        Commit("load_state", [src |-> "input", state |-> state, phase |-> 0],
               WrapSpawner_load_state(Self, state, b))

\* the host hands back the mapping it got from get_state
Reload ==
    /\ saved.keys # {}
    /\ \E b \in Behaviours({"init", "clear_state", "load_state"}) :
          Commit("load_state", [src |-> "saved", state |-> saved, phase |-> rt],
                 WrapSpawner_load_state(Self, saved, b))

Next ==
    \/ SetUserOptions
    \/ Select
    \/ Construct
    \/ Start
    \/ Stop
    \/ Poll
    \/ GetState
    \/ ClearState
    \/ LoadState
    \/ Reload
    \/ Return

Spec == Init /\ [][Next]_vars

-----------------------------------------------------------------------------
\* The ProfilesSpawner handed a persisted mapping whose child_conf is not what
\* the profiles hold now (the configuration changed since it was saved)

ChangedConf == {<<"start_timeout", "30">>}
ForeignStates ==
    { MkState(ks, ChangedConf, RunningState, prof) :
        ks \in {{"child_conf", "child_state"}, {"child_conf", "child_state", "profile"}},
        prof \in ProfileKeys }

InitReload ==
    /\ Init
    /\ cls = "ProfilesSpawner"

LoadForeign ==
    \E state \in ForeignStates, b \in Behaviours({}) :
        Commit("load_state", [src |-> "input", state |-> state, phase |-> 0],
               WrapSpawner_load_state(Self, state, b))

NextReload ==
    \/ SetUserOptions
    \/ Select
    \/ Construct
    \/ Start
    \/ GetState
    \/ ClearState
    \/ LoadForeign
    \/ Reload
    \/ Return

ReloadSpec == InitReload /\ [][NextReload]_vars

-----------------------------------------------------------------------------
\* The wrapper with its traits being written: the calls that build and drop
\* the child, and assignments to a trait of the wrapper or of the child

WriteCore ==
    \E t \in SpawnerTraits, v \in TraitValues :
        /\ v # traits[t]
        /\ Commit("set_trait", <<t, v>>, CoreWrite(Self, t, v))

WriteChild ==
    /\ child_spawner # None
    /\ \E t \in SpawnerTraits, v \in TraitValues :
          /\ v # child_spawner.traits[t]
          /\ Commit("child_set_trait", <<t, v>>, ChildWrite(Self, t, v))

NextLink ==
    \/ SetUserOptions
    \/ Construct
    \/ ClearState
    \/ WriteCore
    \/ WriteChild
    \/ Return

LinkSpec == Init /\ [][NextLink]_vars

-----------------------------------------------------------------------------
\* The second state machine: the calls the host makes on a configured
\* spawner before any child exists (configuration, form rendering, form
\* parsing).  The wrapper's child fields stay as constructed.

SelectorClasses == {"ProfilesSpawner", "DockerProfilesSpawner", "DropDownOptionsSpawner"}

\* what DockerProfilesSpawner may be given as default_profiles (the default
\* is the empty list), and what may be around it
LocalProfile == <<"Local", "local", "LocalProcessSpawner", {<<"start_timeout", "15">>}>>
ShadowProfile == <<"Pinned image", "docker-base-jupyterhub", "LocalProcessSpawner", EmptyDict>>
DefaultProfileChoices == {<<>>, <<LocalProfile>>, <<ShadowProfile>>}
TagLists == {<<>>, <<"postgres">>, <<"postgres", "base-jupyterhub">>,
             <<"base-jupyterhub", "gpu-jupyterhub">>}
Environments ==
    [docker : {"missing", "down", "up"}, tags : TagLists, nvidia : {"down", "up", "garbled"}]

ProfileFormData == {EmptyDict} \cup {{<<"profile", l>>} : l \in FormLists}

\* a structured form with any of its fields left out; a field may come twice
Submitted(k) ==
    IF k = "options" THEN PyList(<<"--flag", "--other">>)
    ELSE PyList(<<Get(ExampleOptions, k, "")>>)
DropDownFormData == {{<<k, Submitted(k)>> : k \in S} : S \in SUBSET FormFields}

FormData == IF cls = "DropDownOptionsSpawner" THEN DropDownFormData ELSE ProfileFormData

PartitionChoices == {<<"standard">>, <<"gpu", "standard">>, <<"x">>}

\* the lists an administrator may propose: any keys, in any order, repeated or
\* not; each profile's type goes with its key
KeyType(k) == IF k = "a" THEN "LocalProcessSpawner" ELSE "TorqueSpawner"
Proposals ==
    { [i \in DOMAIN ks |-> <<"Profile " \o ks[i], ks[i], KeyType(ks[i]), ProfileCell(i)>>] :
        ks \in UNION {[1..n -> ProfileKeys] : n \in 0..MaxProposalLen} }

InitForm ==
    /\ cls \in SelectorClasses
    /\ \E ps \in (IF cls = "ProfilesSpawner" THEN ProfileChoices ELSE DefaultProfiles) :
          /\ profiles = [i \in DOMAIN ps |->
                            <<"Profile " \o ps[i][1], ps[i][1], ps[i][2], ProfileCell(i)>>]
          /\ heap = [c \in ConfCells |->
                        IF \E i \in DOMAIN ps : ProfileCell(i) = c
                        THEN ps[CHOOSE i \in DOMAIN ps : ProfileCell(i) = c][3]
                        ELSE EmptyDict]
    /\ user_options = EmptyDict
    /\ child_class = DefaultChildClass
    /\ child_config = OwnCell
    /\ child_state = EmptyDict
    /\ child_spawner = None
    /\ child_profile = ""
    /\ saved = BaseState
    /\ last = Idle
    /\ log = <<>>
    /\ ret = RetNone
    /\ rt = 0
    /\ sel = {}
    /\ partitions \in (IF cls = "DropDownOptionsSpawner" THEN PartitionChoices
                                                        ELSE {DefaultPartitions})
    /\ default_profiles \in (IF cls = "DockerProfilesSpawner" THEN DefaultProfileChoices
                                                              ELSE {<<>>})
    /\ env = NoEnv
    /\ call = NoCall
    /\ traits = [t \in SpawnerTraits |-> CoreDefault]

wrappervars == <<child_class, child_config, heap, child_state, child_spawner,
                 child_profile, saved, last, log, ret, rt, sel, traits>>

\* the host parses a submitted form, and keeps the result as user_options
OptionsFromForm ==
    /\ \E fd \in FormData :
          LET r == options_from_form(fd)
          IN /\ call' = [op |-> "options_from_form", arg |-> fd, ret |-> r]
             /\ user_options' = IF r.raised = "" THEN r.value ELSE user_options
    /\ UNCHANGED <<cls, profiles, partitions, default_profiles, env>>
    /\ UNCHANGED wrappervars

\* c.ProfilesSpawner.profiles = [...]; a rejected value leaves the trait as it was
Configure ==
    /\ cls = "ProfilesSpawner"
    /\ \E p \in Proposals :
          LET r == SetProfilesTrait(p)
          IN /\ call' = [op |-> "set_profiles", arg |-> p, ret |-> r]
             /\ profiles' = IF r.raised = "" THEN r.value ELSE profiles
             /\ heap' = IF r.raised = ""
                         THEN [c \in ConfCells |->
                                 IF \E i \in DOMAIN p : p[i][4] = c
                                 THEN ProfileConf(p[CHOOSE i \in DOMAIN p : p[i][4] = c][3])
                                 ELSE heap[c]]
                         ELSE heap
    /\ UNCHANGED <<cls, user_options, partitions, default_profiles, env>>
    /\ UNCHANGED <<child_class, child_config, child_state, child_spawner,
                   child_profile, saved, last, log, ret, rt, sel, traits>>

\* the host reads options_form to show the spawn page
RenderForm ==
    /\ cls \in {"ProfilesSpawner", "DockerProfilesSpawner"}
    /\ call' = [op |-> "options_form", arg |-> SelfProfiles, ret |-> options_form]
    /\ UNCHANGED <<cls, profiles, user_options, partitions, default_profiles, env>>
    /\ UNCHANGED wrappervars

\* a component reads the profiles list
ReadProfiles ==
    /\ cls \in {"ProfilesSpawner", "DockerProfilesSpawner"}
    /\ call' = [op |-> "profiles", arg |-> env, ret |-> SelfProfiles]
    /\ UNCHANGED <<cls, profiles, user_options, partitions, default_profiles, env>>
    /\ UNCHANGED wrappervars

\* images come and go, the daemon and the accelerator service start and stop
EnvChanges ==
    /\ cls = "DockerProfilesSpawner"
    /\ env' \in Environments \ {env}
    /\ UNCHANGED <<cls, profiles, user_options, partitions, default_profiles, call>>
    /\ UNCHANGED wrappervars

NextForm ==
    \/ OptionsFromForm
    \/ Configure
    \/ RenderForm
    \/ ReadProfiles
    \/ EnvChanges

FormSpec == InitForm /\ [][NextForm]_vars

-----------------------------------------------------------------------------
\* Properties

ProfileIndex(k) == CHOOSE i \in DOMAIN profiles : profiles[i][2] = k
IsProfileKey(k) == \E i \in DOMAIN profiles : profiles[i][2] = k
ProfileType(k) == profiles[ProfileIndex(k)][3]
ProfileConfig(k) == heap[profiles[ProfileIndex(k)][4]]
BackendCalls(l) == {i \in DOMAIN l : l[i] \in {"child.__init__", "child.clear_state",
                        "child.load_state", "child.get_state", "child.start",
                        "child.stop", "child.poll"}}

\* C1: state = get_state() on a wrapper with a live child, then clear_state(),
\* then load_state(state), each returning normally, leaves the wrapper with a
\* child whose get_state() is the state the original child reported.
C1_RoundTrip ==
    ( /\ last.op = "load_state"
      /\ last.ok
      /\ last.arg.src = "saved"
      /\ last.arg.phase = 2
      /\ "child_state" \in last.arg.state.keys )
    => /\ child_spawner # None
       /\ ChildGetState(child_spawner) = last.arg.state.child_state

C1_Witness ==
    /\ cls = "ProfilesSpawner"
    /\ last.op = "load_state"
    /\ last.ok
    /\ last.arg.src = "saved"
    /\ last.arg.phase = 2
    /\ "child_state" \in last.arg.state.keys
    /\ last.arg.state.child_state = RunningState
    /\ child_spawner # None
    /\ child_spawner.state = RunningState

\* C2: with no child, stop(now) and poll() do not raise, call no backend,
\* return an already-completed Future holding None (stop) or 1 (poll), and
\* change none of the wrapper's fields.
C2_NoChildStopPoll ==
    [][ (child_spawner = None /\ last'.op \in {"stop", "poll"})
        => /\ last'.ok
           /\ log' = <<>>
           /\ ret'.kind = "Future"
           /\ ret'.done
           /\ ret'.result = (IF last'.op = "stop" THEN PyNone ELSE Py(1))
           /\ UNCHANGED <<child_class, child_config, heap, child_state,
                          child_spawner, child_profile, user_options, profiles>> ]_vars

C2_Witness ==
    /\ last.op = "poll"
    /\ ~last.hadChild
    /\ child_spawner = None
    /\ ret = yield_val(Py(1))
    /\ child_class # DefaultChildClass

FirstProfileKey(k) == Get(user_options, "profile", "") = k
NamesNoProfile == ~IsProfileKey(Get(user_options, "profile", ""))

SelectedThenConstructed ==
    /\ cls = "ProfilesSpawner"
    /\ last.op = "construct_child"
    /\ last.ok
    /\ ~last.hadChild
    /\ \E k \in last.arg.sel : IsProfileKey(k)

\* C3 as stated: on a ProfilesSpawner without a child, select_profile(k) and
\* then construct_child() give a child of profile k's type, configured with
\* profile k's config, whatever user_options holds.
C3_SelectThenConstruct ==
    SelectedThenConstructed
    => \A k \in last.arg.sel :
          /\ child_spawner.type = ProfileType(k)
          /\ child_spawner.kwargs = ProfileConfig(k)

\* C3 amended: the same, provided user_options' 'profile' is k itself or is
\* the key of no profile (it is absent, say): construct_child selects again,
\* from user_options.
C3_SelectThenConstructAmended ==
    ( /\ SelectedThenConstructed
      /\ \A k \in last.arg.sel : FirstProfileKey(k) \/ NamesNoProfile )
    => \A k \in last.arg.sel :
          /\ child_spawner.type = ProfileType(k)
          /\ child_spawner.kwargs = ProfileConfig(k)

C3_Witness ==
    /\ SelectedThenConstructed
    /\ Len(profiles) = 2
    /\ last.arg.sel = {profiles[2][2]}
    /\ NamesNoProfile
    /\ profiles[1][3] # profiles[2][3]
    /\ child_spawner.type = profiles[2][3]
    /\ child_spawner.kwargs = heap[profiles[2][4]]

\* C4: select_profile with a key that matches no profile raises nothing and
\* leaves child_class and child_config (the dict and its contents) as they were.
C4_SelectUnknownKey ==
    [][ (last'.op = "select_profile" /\ \A i \in DOMAIN profiles : profiles[i][2] # last'.arg)
        => /\ last'.ok
           /\ child_class' = child_class
           /\ child_config' = child_config
           /\ heap' = heap ]_vars

C4_Witness ==
    /\ last.op = "select_profile"
    /\ last.arg = "zz"
    /\ child_class # DefaultChildClass
    /\ child_config # OwnCell

\* a wrapper as the host has just created it
Fresh ==
    /\ child_spawner = None
    /\ child_state = EmptyDict
    /\ child_profile = ""
    /\ child_class = DefaultChildClass
    /\ child_config = OwnCell
    /\ heap[OwnCell] = EmptyDict

\* C5: load_state(state) on a fresh ProfilesSpawner, state's 'profile' being
\* the key k of a profile, constructs a child of profile k's type, whatever
\* user_options holds.
C5_LoadStateRestoresType ==
    [][ ( /\ cls = "ProfilesSpawner"
          /\ Fresh
          /\ last'.op = "load_state"
          /\ last'.ok
          /\ "profile" \in last'.arg.state.keys
          /\ IsProfileKey(last'.arg.state.profile) )
        => /\ child_spawner' # None
           /\ child_spawner'.type = ProfileType(last'.arg.state.profile) ]_vars

\* what a reload on a fresh wrapper selects from a persisted key
Reselected(key) ==
    select_profile([Self EXCEPT !.child_class = DefaultChildClass,
                                !.child_config = OwnCell], key).child_class

\* C6: while a ProfilesSpawner has a child, the 'profile' that get_state()
\* persists selects, on reload, the type the live child was built from; after
\* clear_state() the persisted key is the empty string.
C6_PersistedKeyMatchesChild ==
    /\ (cls = "ProfilesSpawner" /\ child_spawner # None)
          => Reselected(get_state(Self).saved.profile) = child_spawner.type
    /\ (cls = "ProfilesSpawner" /\ last.op = "clear_state" /\ last.ok)
          => get_state(Self).saved.profile = ""

\* C7: construct_child() on a wrapper that has a child keeps that child as it
\* is (no reset, no reload, no new links) and leaves child_class and
\* child_config unchanged.
C7_ConstructIdempotent ==
    [][ (child_spawner # None /\ last'.op = "construct_child")
        => /\ last'.ok
           /\ child_spawner' = child_spawner
           /\ BackendCalls(log') = {}
           /\ child_class' = child_class
           /\ child_config' = child_config
           /\ heap' = heap ]_vars

\* C8 as stated: after clear_state() returns, the child is gone (its own
\* clear_state having been called), child_state and child_config are empty, and
\* child_class is no longer the selected type but back to the default.
C8_ClearStateFullReset ==
    [][ (last'.op = "clear_state" /\ last'.ok)
        => /\ child_spawner # None => log' = <<"Spawner.clear_state", "child.clear_state">>
           /\ child_spawner' = None
           /\ child_state' = EmptyDict
           /\ heap'[child_config'] = EmptyDict
           /\ child_class' = DefaultChildClass ]_vars

\* C8 amended: the same, but child_class is left as it was; child_config is
\* bound to a new empty dict, so no profile's dict is emptied.
C8_ClearStateAmended ==
    [][ (last'.op = "clear_state" /\ last'.ok)
        => /\ child_spawner # None => log' = <<"Spawner.clear_state", "child.clear_state">>
           /\ child_spawner = None => log' = <<"Spawner.clear_state">>
           /\ child_spawner' = None
           /\ child_state' = EmptyDict
           /\ child_config' = OwnCell
           /\ heap'[child_config'] = EmptyDict
           /\ \A c \in ConfCells \ {OwnCell} : heap'[c] = heap[c]
           /\ child_class' = child_class ]_vars

C8_Witness ==
    /\ last.op = "clear_state"
    /\ last.ok
    /\ last.hadChild
    /\ log = <<"Spawner.clear_state", "child.clear_state">>
    /\ child_spawner = None
    /\ child_class # DefaultChildClass
    /\ heap[child_config] = EmptyDict

\* C9 as stated: the mapping get_state() returns always has the child_conf and
\* the child_state entries; with a child, child_state is the child's
\* get_state() and the cache is refreshed to it; without one, it is the cache.
C9_GetStateHasBothEntries ==
    (last.op = "get_state")
    => /\ last.ok
       /\ {"child_conf", "child_state"} \subseteq saved.keys
       /\ saved.child_conf = heap[child_config]
       /\ child_spawner # None
             => saved.child_state = ChildGetState(child_spawner) /\ child_state = saved.child_state
       /\ child_spawner = None => saved.child_state = child_state

\* C9 amended: the mapping always has the child_conf entry; it has the
\* child_state entry exactly when a child exists, and then that is the child's
\* get_state() and the cache is refreshed to it; without a child the mapping
\* has no child_state entry and the cache is left as it is.
C9_GetStateAmended ==
    [][ (last'.op = "get_state")
        => /\ last'.ok
           /\ "child_conf" \in saved'.keys
           /\ saved'.child_conf = heap[child_config]
           /\ ("child_state" \in saved'.keys) <=> (child_spawner # None)
           /\ child_spawner # None
                 => /\ saved'.child_state = ChildGetState(child_spawner)
                    /\ child_state' = ChildGetState(child_spawner)
                    /\ log' = <<"child.get_state">>
           /\ child_spawner = None => child_state' = child_state
           /\ UNCHANGED <<child_class, child_config, heap, child_spawner, child_profile>> ]_vars

C9_Witness ==
    /\ last.op = "get_state"
    /\ child_spawner # None
    /\ "child_state" \in saved.keys
    /\ saved.child_state = RunningState
    /\ child_state = RunningState

C9_WitnessNoChild ==
    /\ last.op = "get_state"
    /\ child_spawner = None
    /\ child_state # EmptyDict
    /\ "child_state" \notin saved.keys

\* C10: load_state restores the base fields, runs load_child_class, merges the
\* persisted child_conf into child_config, caches child_state and constructs
\* the child, in this order; once it has returned there is a child, so that
\* the next poll() and stop() go to the child.
C10_LoadStateOrder ==
    (last.op = "load_state")
    => /\ Len(log) >= 5
       /\ SubSeq(log, 1, 5) = <<"Spawner.load_state", "load_child_class",
                                "child_config.update", "child_state=", "construct_child">>
       /\ \A i \in BackendCalls(log) : i > 5
       /\ last.ok
             => /\ child_spawner # None
                /\ (~last.hadChild /\ "child_state" \in last.arg.state.keys)
                      => ChildGetState(child_spawner) = last.arg.state.child_state
                /\ poll(Self).log = <<"child.poll">>
                /\ poll(Self).ret = ChildFuture("poll", child_spawner.id)
                /\ \A now \in BOOLEAN :
                      /\ stop(Self, now).log = <<"child.stop">>
                      /\ stop(Self, now).ret = ChildFuture("stop", child_spawner.id)

C10_Witness ==
    /\ last.op = "load_state"
    /\ last.ok
    /\ ~last.hadChild
    /\ last.arg.src = "input"
    /\ child_spawner # None
    /\ child_spawner.state = RunningState
    /\ child_spawner.linked

\* how often a call into the backend is found in a call's log
Count(l, what) == Cardinality({i \in DOMAIN l : l[i] = what})

\* C11: start() constructs the child when there is none, then calls the
\* child's start exactly once and returns the child's future as it is; when
\* the child's start raises, the caller gets that error after that one call
\* (no retry, nothing caught) and the child stays the wrapper's child.
C11_StartDelegatesOnce ==
    [][ (last'.op = "start" /\ Count(log', "child.start") > 0)
        => /\ Count(log', "child.start") = 1
           /\ log'[Len(log')] = "child.start"
           /\ child_spawner' # None
           /\ child_spawner # None
                 => /\ log' = <<"child.start">>
                    /\ child_spawner'.id = child_spawner.id
           /\ child_spawner = None
                 => /\ Count(log', "child.__init__") = 1
                    /\ child_spawner'.type = child_class'
                    /\ child_spawner'.linked
           /\ last'.ok => ret' = ChildFuture("start", child_spawner'.id)
           /\ ~last'.ok
                 => /\ ret' = RetRaised
                    /\ child_spawner'.state = (IF child_spawner # None
                                                THEN child_spawner.state
                                                ELSE child_state) ]_vars

\* start() on a childless wrapper built the child, whose start then raised
C11_Witness ==
    /\ last.op = "start"
    /\ ~last.ok
    /\ ~last.hadChild
    /\ log[Len(log)] = "child.start"
    /\ ret = RetRaised
    /\ child_spawner # None
    /\ child_spawner.linked

\* C12: ProfilesSpawner.options_from_form(formdata) returns {'profile': v}
\* where v is the first value submitted for 'profile', or the key of the
\* first profile when the form has no 'profile'; it does not raise.
C12_OptionsFromForm ==
    (cls = "ProfilesSpawner" /\ call.op = "options_from_form")
    => /\ call.ret.raised = ""
       /\ Keys(call.ret.value) = {"profile"}
       /\ "profile" \in Keys(call.arg)
             => Get(call.ret.value, "profile", "") = Get(call.arg, "profile", PyList(<<>>)).items[1]
       /\ "profile" \notin Keys(call.arg)
             => Get(call.ret.value, "profile", "") = profiles[1][2]

\* an empty form parsed against a list whose first key is "b"
C12_Witness ==
    /\ cls = "ProfilesSpawner"
    /\ call.op = "options_from_form"
    /\ call.arg = EmptyDict
    /\ Len(profiles) = 2
    /\ profiles[1][2] = "b"
    /\ call.ret = Value({<<"profile", "b">>})
    /\ user_options = {<<"profile", "b">>}

\* a call that runs DropDownOptionsSpawner.construct_child
RunsConstructHook ==
    /\ cls = "DropDownOptionsSpawner"
    /\ \/ last'.op \in {"construct_child", "load_state"}
       \/ last'.op = "start" /\ child_spawner = None

ConfiguredDefault(k) ==
    CASE k = "partition" -> PyStr(partitions[1])
      [] k = "memory" -> PyInt(default_mem)
      [] k = "cpus" -> PyInt(default_cpus)
      [] k = "days" -> PyInt(default_days)
      [] k = "hours" -> PyInt(default_hours)
      [] k = "minutes" -> PyInt(default_minutes)
      [] k = "options" -> PyStr("")

\* C14: DropDownOptionsSpawner.options_from_form(formdata), whichever of the
\* seven fields formdata has, returns without raising a mapping that gives
\* each field present its first submitted value and each field missing its
\* configured default.
C14_OptionsFromFormDefaults ==
    (cls = "DropDownOptionsSpawner" /\ call.op = "options_from_form")
    => /\ call.ret.raised = ""
       /\ Keys(call.ret.value) = FormFields
       /\ \A k \in FormFields :
             IF k \in Keys(call.arg)
             THEN Get(call.ret.value, k, "") = Get(call.arg, k, PyList(<<>>)).items[1]
             ELSE PyStr(Get(call.ret.value, k, "")) = ConfiguredDefault(k)

\* the keys that more than one profile of the list has
RepeatedKeys(ps) == {ps[i][2] : i \in {j \in DOMAIN ps : \E m \in DOMAIN ps : m # j /\ ps[m][2] = ps[j][2]}}

DistinctKeys(ps) == \A i, j \in DOMAIN ps : i # j => ps[i][2] # ps[j][2]

\* C16: the profiles list of a ProfilesSpawner and of a DockerProfilesSpawner
\* (default_profiles followed by what was discovered) is at all times
\* non-empty with keys that all differ, and options_form, whenever the list
\* can be had, marks its first entry as selected.
C16_ProfilesNonEmptyDistinct ==
    /\ (cls \in {"ProfilesSpawner", "DockerProfilesSpawner"} /\ SelfProfiles.raised = "")
          => /\ Len(SelfProfiles.value) >= 1
             /\ DistinctKeys(SelfProfiles.value)
    /\ (call.op = "options_form" /\ call.arg.raised = "")
          => /\ call.ret.raised = ""
             /\ call.ret.value[1] = <<call.arg.value[1][2], "selected">>

\* C17: computing the DockerProfilesSpawner's profiles never raises because
\* something outside cannot be reached: with the accelerator service down
\* the profiles are made without its arguments, and with the docker daemon
\* down nothing is discovered and the list is default_profiles.
C17_UnreachableNeverRaises ==
    (cls = "DockerProfilesSpawner" /\ call.op = "profiles"
         /\ call.arg.docker # "missing" /\ call.arg.nvidia # "garbled")
    => /\ call.ret.raised = ""
       /\ call.arg.docker = "down" => call.ret.value = default_profiles
       /\ call.arg.nvidia = "down"
             => \A i \in DOMAIN call.ret.value :
                   i > Len(default_profiles)
                       => Keys(call.ret.value[i][4]) \cap Keys(NvidiaArgs) = {}

\* C18: while a child exists, no call but clear_state changes child_class or
\* child_config (neither the dict it is bound to nor what that dict holds).
C18_SelectionImmutable ==
    [][ (child_spawner # None /\ last'.op # "clear_state")
        => /\ child_class' = child_class
           /\ child_config' = child_config
           /\ heap'[child_config'] = heap[child_config] ]_vars

\* C19: child_spawner goes from None to a child only in start,
\* construct_child or load_state, goes from a child to None only in
\* clear_state, and in between is the same object, built as it was.
C19_ChildLifetime ==
    [][ /\ (child_spawner = None /\ child_spawner' # None)
              => last'.op \in {"start", "construct_child", "load_state"}
        /\ (child_spawner # None /\ child_spawner' = None)
              => last'.op = "clear_state"
        /\ (child_spawner # None /\ child_spawner' # None)
              => /\ child_spawner'.id = child_spawner.id
                 /\ child_spawner'.type = child_spawner.type
                 /\ child_spawner'.kwargs = child_spawner.kwargs
                 /\ "child.__init__" \notin {log'[i] : i \in DOMAIN log'} ]_vars

\* load_state on a wrapper whose child runs: the child is still there
C19_Witness ==
    /\ last.op = "load_state"
    /\ last.ok
    /\ last.hadChild
    /\ child_spawner # None
    /\ child_spawner.state = RunningState
    /\ "construct_child" \in {log[i] : i \in DOMAIN log}

\* C20: a child that construct_child has built is linked for exactly the
\* traits the wrapper and the child both have and child_config does not set,
\* and has the wrapper's values for them; from then on a value assigned to a
\* linked trait of the wrapper is the child's value too, one assigned to a
\* trait that is not linked leaves the child's as it is, and a value assigned
\* to a trait of the child leaves the wrapper's traits as they are.
C20_DirectionalLinks ==
    [][ /\ (last'.op = "construct_child" /\ last'.ok /\ child_spawner = None)
              => LET cfg == Keys(heap'[child_config'])
                 IN /\ child_spawner'.links =
                          {t \in WrapperTraits \cap ChildTraits(child_spawner'.type) : t \notin cfg}
                    /\ \A t \in child_spawner'.links : child_spawner'.traits[t] = traits[t]
                    /\ \A t \in SpawnerTraits \cap cfg :
                          child_spawner'.traits[t] = Get(heap'[child_config'], t, "")
        /\ (last'.op = "set_trait" /\ child_spawner # None)
              => LET t == last'.arg[1]
                     v == last'.arg[2]
                 IN /\ traits'[t] = v
                    /\ child_spawner'.links = child_spawner.links
                    /\ t \in child_spawner.links => child_spawner'.traits[t] = v
                    /\ \A u \in SpawnerTraits :
                          (u # t \/ t \notin child_spawner.links)
                              => child_spawner'.traits[u] = child_spawner.traits[u]
        /\ (last'.op = "child_set_trait")
              => /\ traits' = traits
                 /\ child_spawner'.traits[last'.arg[1]] = last'.arg[2]
                 /\ child_spawner'.links = child_spawner.links ]_vars

\* http_timeout is linked and was set on the wrapper; start_timeout is set
\* by child_config, so the child keeps its own
C20_Witness ==
    /\ last.op = "set_trait"
    /\ last.arg = <<"http_timeout", "90">>
    /\ child_spawner # None
    /\ child_spawner.linked
    /\ child_spawner.links = {"http_timeout"}
    /\ child_spawner.traits["http_timeout"] = "90"
    /\ child_spawner.traits["start_timeout"] = "15"
    /\ traits["start_timeout"] = "90"

\* C21: a call that builds a child calls the new child's clear_state right
\* after building it, whatever child_state is, and its load_state only after
\* that and only with a child_state that is not empty; when child_state is
\* not empty it does call load_state, with child_state.
C21_ClearBeforeLoad ==
    /\ \A i \in DOMAIN log :
          (log[i] = "child.__init__" /\ i < Len(log)) => log[i + 1] = "child.clear_state"
    /\ \A j \in DOMAIN log :
          log[j] = "child.load_state"
              => /\ j > 2
                 /\ log[j - 1] = "child.clear_state"
                 /\ log[j - 2] = "child.__init__"
                 /\ child_state # EmptyDict
    /\ (last.ok /\ Count(log, "child.__init__") > 0)
          => /\ Count(log, "child.clear_state") = 1
             /\ Count(log, "child.load_state") = (IF child_state # EmptyDict THEN 1 ELSE 0)
             /\ last.op # "start" => child_spawner.state = child_state

\* load_state built a child, reset it and then gave it the cached state
C21_Witness ==
    /\ last.op = "load_state"
    /\ last.ok
    /\ ~last.hadChild
    /\ Count(log, "child.__init__") = 1
    /\ Count(log, "child.clear_state") = 1
    /\ Count(log, "child.load_state") = 1
    /\ child_state = RunningState
    /\ child_spawner.state = RunningState

\* C22: a construct_child() in which the backend's constructor, the child's
\* clear_state or the child's load_state raises leaves the wrapper without a
\* child: whenever there is a child, its traits have been linked.
C22_AllOrNothing ==
    child_spawner # None => child_spawner.linked

\* what the administrator gave profile i as its config
ConfiguredConf(i) == ProfileConf(profiles[i][3])

\* C23: whatever calls are made on a ProfilesSpawner (select_profile,
\* construct_child, start, get_state, load_state with any persisted
\* child_conf, clear_state), the config dict of every profile holds what it
\* held when the list was configured.
C23_ProfilesUntouched ==
    cls = "ProfilesSpawner"
        => \A i \in DOMAIN profiles : heap[profiles[i][4]] = ConfiguredConf(i)

=============================================================================
